---- MODULE Spec2Model ----
(***************************************************************************)
(* Model of q2_sample_classifier/classify.py.                              *)
(*                                                                         *)
(* One invocation of an entry point at a time.  An entry point runs up to  *)
(* its first call of a collaborator (load_data, tune_parameters,           *)
(* split_optimize_classify, visualize, estimator.predict); the collaborator*)
(* then either returns a value or raises, and the entry point continues up *)
(* to its next call, its return, or the propagation of the exception.      *)
(* Every call, return, raise and warning of the invocation is recorded in  *)
(* trace / emitted.                                                        *)
(***************************************************************************)
EXTENDS Integers, Sequences, FiniteSets, TLC

VARIABLES
    pc,        \* where the current invocation stands
    fn,        \* name of the entry point invoked ("none" before the first call)
    args,      \* the caller's arguments of the invocation
    frame,     \* local variables of the entry point that later statements read
    trace,     \* calls made to collaborators, and what they returned or raised
    emitted,   \* warnings issued through warnings.warn in this invocation
    result,    \* what the caller gets: pending, a returned value or an exception
    reports,   \* output directories a report was written to in this invocation
    module     \* the module-level search-space dictionaries

vars == <<pc, fn, args, frame, trace, emitted, result, reports, module>>

---------------------------------------------------------------------------
(* Bounds of the model *)

NumDirs == 2
NumTables == 1
NumCategories == 2
NumOpts == 1
NumResults == 2
NumExceptions == 2

\* An opaque value the file only passes on: a kind and an identity
Token(kind, i) == [kind |-> kind, id |-> i]

OutputDirs == {Token("output_dir", i) : i \in 1..NumDirs}
Tables == {Token("table", i) : i \in 1..NumTables}
Metadatas == {Token("metadata", i) : i \in 1..NumTables}
Categories == {Token("category", i) : i \in 1..NumCategories}
\* test_size, step, cv, random_state, n_jobs: scalars the file only forwards
Options ==
    {[test_size |-> Token("test_size", i), step |-> Token("step", i),
      cv |-> Token("cv", i), random_state |-> Token("random_state", i),
      n_jobs |-> Token("n_jobs", i)] : i \in 1..NumOpts}
NEstimators == {Token("n_estimators", i) : i \in 1..NumOpts}
Algorithms == {Token("algorithm", i) : i \in 1..NumOpts}
Solvers == {Token("solver", i) : i \in 1..NumOpts}
Kernels == {"linear", "rbf", "poly"}
Exceptions == {Token("exception", i) : i \in 1..NumExceptions}
Pipelines == {Token("pipeline", i) : i \in 1..NumResults}

---------------------------------------------------------------------------
(* Module-level search spaces, classify.py lines 32-70.  A dictionary is a *)
(* function from its keys to a token naming the value listed in the source.*)

ensemble_params ==
    [max_depth |-> "[4, 8, 16, None]",
     max_features |-> "[None, 'sqrt', 'log2', 0.1]",
     min_samples_split |-> "[0.001, 0.01, 0.1]",
     min_weight_fraction_leaf |-> "[0.0001, 0.001, 0.01]",
     bootstrap |-> "[True, False]"]

linear_svm_params ==
    [C |-> "[1, 0.5, 0.1, 0.9, 0.8]",
     loss |-> "['hinge', 'squared_hinge']",
     tol |-> "[0.00001, 0.0001, 0.001]"]

svm_params ==
    [C |-> "[1, 0.5, 0.1, 0.9, 0.8]",
     tol |-> "[0.00001, 0.0001, 0.001, 0.01]",
     shrinking |-> "[True, False]"]

neighbors_params ==
    [n_neighbors |-> "randint(2, 15)",
     weights |-> "['uniform', 'distance']",
     leaf_size |-> "randint(15, 100)"]

linear_params ==
    [alpha |-> "[0.0001, 0.01, 1.0, 10.0, 1000.0]",
     tol |-> "[0.00001, 0.0001, 0.001, 0.01]"]

ModuleAtImport ==
    [ensemble_params |-> ensemble_params,
     linear_svm_params |-> linear_svm_params,
     svm_params |-> svm_params,
     neighbors_params |-> neighbors_params,
     linear_params |-> linear_params]

\* param_dist = <module dictionary>: the very object, not a copy
SameObject(name) == [obj |-> name, dict |-> module[name]]

\* {**d, key: value}: a new dictionary; a later key overrides an earlier one
NewDictWith(d, key, value) == [obj |-> "fresh", dict |-> (key :> value) @@ d]

\* {k: d[k] for k in d.keys() if k != key}: a new dictionary
NewDictWithout(d, key) ==
    [obj |-> "fresh", dict |-> [k \in DOMAIN d \ {key} |-> d[k]]]

---------------------------------------------------------------------------
(* Estimators of the estimator library, classify.py lines 12-21 *)

Classifiers ==
    {"RandomForestClassifier", "ExtraTreesClassifier", "AdaBoostClassifier",
     "GradientBoostingClassifier", "LinearSVC", "SVC", "KNeighborsClassifier",
     "DecisionTreeClassifier"}

Regressors ==
    {"RandomForestRegressor", "ExtraTreesRegressor", "AdaBoostRegressor",
     "GradientBoostingRegressor", "SVR", "Ridge", "Lasso", "ElasticNet",
     "KNeighborsRegressor", "DecisionTreeRegressor"}

\* Cls(ctor arguments): an unfitted estimator built by the entry point
New(cls, ctor) == [cls |-> cls, ctor |-> ctor]

\* What indexing the targets by a column they do not have raises
KeyError(key) == [kind |-> "KeyError", key |-> key]

\* The value of a function that ends without a return statement
None == [kind |-> "None"]

\* DecisionTreeClassifier(), LinearSVC(), Lasso(): no constructor argument
NoArgs == <<>>

---------------------------------------------------------------------------
(* Arguments a caller may pass, by signature *)

CommonArgs ==
    [output_dir : OutputDirs, table : Tables, metadata : Metadatas,
     category : Categories, opts : Options]

With(r, extra) == extra @@ r

\* random forest, extra trees, adaboost, gradient boosting
EnsembleArgs ==
    {With(c, [n_estimators |-> n, optimize_feature_selection |-> o,
              parameter_tuning |-> t]) :
        c \in CommonArgs, n \in NEstimators, o \in BOOLEAN, t \in BOOLEAN}

\* classify_linearSVC, regress_lasso, regress_elasticnet
LinearArgs ==
    {With(c, [optimize_feature_selection |-> o, parameter_tuning |-> t]) :
        c \in CommonArgs, o \in BOOLEAN, t \in BOOLEAN}

\* classify_SVC, regress_SVR
SVMArgs == {With(c, [kernel |-> k]) : c \in LinearArgs, k \in Kernels}

\* regress_ridge
RidgeArgs == {With(c, [solver |-> v]) : c \in LinearArgs, v \in Solvers}

\* classify_kneighbors, regress_kneighbors
NeighborsArgs ==
    {With(c, [parameter_tuning |-> t, algorithm |-> g]) :
        c \in CommonArgs, t \in BOOLEAN, g \in Algorithms}

\* classify_new_data
NewDataArgs == [table : Tables, estimator : Pipelines]

---------------------------------------------------------------------------
(* Events of an invocation *)

CallEv(callee, kwargs) == [ev |-> "call", callee |-> callee, val |-> kwargs]
ReturnEv(callee, value) == [ev |-> "return", callee |-> callee, val |-> value]
RaiseEv(callee, exc) == [ev |-> "raise", callee |-> callee, val |-> exc]

Default == "<default>"

\* the call in progress: the last one made
LastCall == trace[Len(trace)]

\* split_optimize_classify(table, metadata, category, estimator, output_dir,
\*     test_size=, step=, cv=, random_state=, n_jobs=, ...): the call as made
split_optimize_classify(a, estimator, optimize_feature_selection, parameter_tuning, param_dist, calc_feature_importance, scoring, classification) ==
    CallEv("split_optimize_classify",
           [table |-> a.table, metadata |-> a.metadata,
            category |-> a.category, estimator |-> estimator,
            output_dir |-> a.output_dir, test_size |-> a.opts.test_size,
            step |-> a.opts.step, cv |-> a.opts.cv,
            random_state |-> a.opts.random_state, n_jobs |-> a.opts.n_jobs,
            optimize_feature_selection |-> optimize_feature_selection,
            parameter_tuning |-> parameter_tuning, param_dist |-> param_dist,
            calc_feature_importance |-> calc_feature_importance,
            scoring |-> scoring, classification |-> classification])

\* warnings.warn(warning, UserWarning), issued before the pipeline is called
WarnEvs(warned) ==
    [i \in 1..Len(warned) |->
        [ev |-> "warn", callee |-> "warnings.warn", val |-> warned[i]]]

\* An entry point is invoked when no invocation is in progress
Begin(f, a) ==
    /\ pc = "idle"
    /\ fn' = f
    /\ args' = a
    /\ result' = [kind |-> "pending"]
    /\ reports' = {}
    /\ UNCHANGED module

\* The entry point up to its call of split_optimize_classify; flag is what
\* its local optimize_feature_selection holds for the later call of visualize
ToPipeline(f, a, warned, call, flag) ==
    /\ Begin(f, a)
    /\ emitted' = warned
    /\ trace' = WarnEvs(warned) \o <<call>>
    /\ frame' = [optimize_feature_selection |-> flag]
    /\ pc' = "split_optimize_classify"

---------------------------------------------------------------------------
(* classify.py lines 493-509 *)

warn_feature_selection ==
    [category |-> "UserWarning",
     message |-> "This estimator does not support recursive feature extraction"]

\* svm_set with the non-linear branch leaving the caller's flag as it is
svm_set_keeps_flag(kernel, optimize_feature_selection) ==
    IF kernel = "linear"
    THEN [calc_feature_importance |-> TRUE,
          optimize_feature_selection |-> optimize_feature_selection,
          warned |-> <<>>]
    ELSE [calc_feature_importance |-> FALSE,
          optimize_feature_selection |-> optimize_feature_selection,
          warned |-> <<warn_feature_selection>>]

\* svm_set with the linear branch switching feature selection off as well
svm_set_always_off(kernel, optimize_feature_selection) ==
    IF kernel = "linear"
    THEN [calc_feature_importance |-> TRUE,
          optimize_feature_selection |-> FALSE,
          warned |-> <<>>]
    ELSE [calc_feature_importance |-> FALSE,
          optimize_feature_selection |-> FALSE,
          warned |-> <<warn_feature_selection>>]

\* svm_set calling warn_feature_selection whatever the kernel
svm_set_warns_always(kernel, optimize_feature_selection) ==
    IF kernel = "linear"
    THEN [calc_feature_importance |-> TRUE,
          optimize_feature_selection |-> optimize_feature_selection,
          warned |-> <<warn_feature_selection>>]
    ELSE [calc_feature_importance |-> FALSE,
          optimize_feature_selection |-> FALSE,
          warned |-> <<warn_feature_selection>>]

svm_set(kernel, optimize_feature_selection) ==
    IF kernel = "linear"
    THEN [calc_feature_importance |-> TRUE,
          optimize_feature_selection |-> optimize_feature_selection,
          warned |-> <<>>]
    ELSE [calc_feature_importance |-> FALSE,
          optimize_feature_selection |-> FALSE,
          warned |-> <<warn_feature_selection>>]

---------------------------------------------------------------------------
(* Entry points, classify.py lines 73-490 *)

\* classify_adaboost and regress_adaboost with parameter_tuning, up to the
\* call load_data(table, metadata, transpose=True)
ToTuning(f, a, base_estimator, param_dist) ==
    /\ Begin(f, a)
    /\ emitted' = <<>>
    /\ trace' = <<CallEv("load_data",
                         [table |-> a.table, metadata |-> a.metadata,
                          transpose |-> TRUE])>>
    /\ frame' = [optimize_feature_selection |-> a.optimize_feature_selection,
                 base_estimator |-> base_estimator,
                 param_dist |-> param_dist]
    /\ pc' = "load_data"

\* classify_random_forest adding 'criterion' to ensemble_params in place:
\* ensemble_params["criterion"] = [...]; param_dist = ensemble_params
classify_random_forest_in_place(a) ==
    LET updated == ("criterion" :> "['gini', 'entropy']") @@ module.ensemble_params
        param_dist == [obj |-> "ensemble_params", dict |-> updated]
        estimator == New("RandomForestClassifier", [n_jobs |-> a.opts.n_jobs, n_estimators |-> a.n_estimators])
    IN  /\ pc = "idle"
        /\ fn' = "classify_random_forest"
        /\ args' = a
        /\ result' = [kind |-> "pending"]
        /\ reports' = {}
        /\ module' = [module EXCEPT !.ensemble_params = updated]
        /\ emitted' = <<>>
        /\ trace' = <<split_optimize_classify(a, estimator,
                         a.optimize_feature_selection, a.parameter_tuning,
                         param_dist, TRUE, Default, Default)>>
        /\ frame' = [optimize_feature_selection |->
                         a.optimize_feature_selection]
        /\ pc' = "split_optimize_classify"

classify_random_forest(a) ==
    LET param_dist == NewDictWith(module.ensemble_params, "criterion", "['gini', 'entropy']")
        estimator == New("RandomForestClassifier", [n_jobs |-> a.opts.n_jobs, n_estimators |-> a.n_estimators])
    IN  ToPipeline("classify_random_forest", a, <<>>,
            split_optimize_classify(a, estimator,
                a.optimize_feature_selection, a.parameter_tuning, param_dist,
                TRUE, Default, Default),
            a.optimize_feature_selection)

classify_extra_trees(a) ==
    LET param_dist == NewDictWith(module.ensemble_params, "criterion", "['gini', 'entropy']")
        estimator == New("ExtraTreesClassifier", [n_jobs |-> a.opts.n_jobs, n_estimators |-> a.n_estimators])
    IN  ToPipeline("classify_extra_trees", a, <<>>,
            split_optimize_classify(a, estimator,
                a.optimize_feature_selection, a.parameter_tuning, param_dist,
                TRUE, Default, Default),
            a.optimize_feature_selection)

\* classify_adaboost from the construction of the boosted estimator on
\* classify_adaboost handing the caller's parameter_tuning to the pipeline
classify_adaboost_boost_retunes(a, base_estimator, param_dist) ==
    LET estimator == New("AdaBoostClassifier",
                         [base_estimator |-> base_estimator,
                          n_estimators |-> a.n_estimators])
    IN  split_optimize_classify(a, estimator,
            a.optimize_feature_selection, a.parameter_tuning, param_dist,
            TRUE, Default, Default)

classify_adaboost_boost(a, base_estimator, param_dist) ==
    LET estimator == New("AdaBoostClassifier",
                         [base_estimator |-> base_estimator,
                          n_estimators |-> a.n_estimators])
    IN  split_optimize_classify(a, estimator,
            a.optimize_feature_selection, FALSE, param_dist,
            TRUE, Default, Default)

classify_adaboost(a) ==
    LET base_estimator == New("DecisionTreeClassifier", NoArgs)
        param_dist == NewDictWithout(module.ensemble_params, "bootstrap")
    IN  IF a.parameter_tuning
        THEN ToTuning("classify_adaboost", a, base_estimator, param_dist)
        ELSE ToPipeline("classify_adaboost", a, <<>>,
                 classify_adaboost_boost(a, base_estimator, param_dist),
                 a.optimize_feature_selection)

classify_gradient_boosting(a) ==
    LET param_dist == NewDictWithout(module.ensemble_params, "bootstrap")
        estimator == New("GradientBoostingClassifier", [n_estimators |-> a.n_estimators])
    IN  ToPipeline("classify_gradient_boosting", a, <<>>,
            split_optimize_classify(a, estimator,
                a.optimize_feature_selection, a.parameter_tuning, param_dist,
                TRUE, Default, Default),
            a.optimize_feature_selection)

regress_random_forest(a) ==
    LET param_dist == SameObject("ensemble_params")
        estimator == New("RandomForestRegressor", [n_jobs |-> a.opts.n_jobs, n_estimators |-> a.n_estimators])
    IN  ToPipeline("regress_random_forest", a, <<>>,
            split_optimize_classify(a, estimator,
                a.optimize_feature_selection, a.parameter_tuning, param_dist,
                TRUE, "mean_squared_error", "False"),
            a.optimize_feature_selection)

regress_extra_trees(a) ==
    LET param_dist == SameObject("ensemble_params")
        estimator == New("ExtraTreesRegressor", [n_jobs |-> a.opts.n_jobs, n_estimators |-> a.n_estimators])
    IN  ToPipeline("regress_extra_trees", a, <<>>,
            split_optimize_classify(a, estimator,
                a.optimize_feature_selection, a.parameter_tuning, param_dist,
                TRUE, "mean_squared_error", "False"),
            a.optimize_feature_selection)

\* regress_adaboost from the construction of the boosted estimator on
regress_adaboost_boost(a, base_estimator, param_dist) ==
    LET estimator == New("AdaBoostRegressor",
                         [base_estimator |-> base_estimator,
                          n_estimators |-> a.n_estimators])
    IN  split_optimize_classify(a, estimator,
            a.optimize_feature_selection, FALSE, param_dist,
            TRUE, "mean_squared_error", "False")

regress_adaboost(a) ==
    LET base_estimator == New("DecisionTreeRegressor", NoArgs)
        param_dist == NewDictWithout(module.ensemble_params, "bootstrap")
    IN  IF a.parameter_tuning
        THEN ToTuning("regress_adaboost", a, base_estimator, param_dist)
        ELSE ToPipeline("regress_adaboost", a, <<>>,
                 regress_adaboost_boost(a, base_estimator, param_dist),
                 a.optimize_feature_selection)

regress_gradient_boosting(a) ==
    LET param_dist == NewDictWithout(module.ensemble_params, "bootstrap")
        estimator == New("GradientBoostingRegressor", [n_estimators |-> a.n_estimators])
    IN  ToPipeline("regress_gradient_boosting", a, <<>>,
            split_optimize_classify(a, estimator,
                a.optimize_feature_selection, a.parameter_tuning, param_dist,
                TRUE, "mean_squared_error", "False"),
            a.optimize_feature_selection)

\* classify_linearSVC with feature importances switched off
classify_linearSVC_no_importance(a) ==
    LET param_dist == SameObject("linear_svm_params")
        estimator == New("LinearSVC", NoArgs)
    IN  ToPipeline("classify_linearSVC", a, <<>>,
            split_optimize_classify(a, estimator,
                a.optimize_feature_selection, a.parameter_tuning, param_dist,
                FALSE, Default, Default),
            a.optimize_feature_selection)

classify_linearSVC(a) ==
    LET param_dist == SameObject("linear_svm_params")
        estimator == New("LinearSVC", NoArgs)
    IN  ToPipeline("classify_linearSVC", a, <<>>,
            split_optimize_classify(a, estimator,
                a.optimize_feature_selection, a.parameter_tuning, param_dist,
                TRUE, Default, Default),
            a.optimize_feature_selection)

\* classify_SVC keeping svm_set's flag apart from the one visualize reads
classify_SVC_reports_caller_flag(a) ==
    LET param_dist == SameObject("svm_params")
        estimator == New("SVC", [kernel |-> a.kernel])
        s == svm_set(a.kernel, a.optimize_feature_selection)
    IN  ToPipeline("classify_SVC", a, s.warned,
            split_optimize_classify(a, estimator,
                s.optimize_feature_selection, a.parameter_tuning, param_dist,
                s.calc_feature_importance, Default, Default),
            a.optimize_feature_selection)

classify_SVC(a) ==
    LET param_dist == SameObject("svm_params")
        estimator == New("SVC", [kernel |-> a.kernel])
        s == svm_set(a.kernel, a.optimize_feature_selection)
        calc_feature_importance == s.calc_feature_importance
        optimize_feature_selection == s.optimize_feature_selection
    IN  ToPipeline("classify_SVC", a, s.warned,
            split_optimize_classify(a, estimator,
                optimize_feature_selection, a.parameter_tuning, param_dist,
                calc_feature_importance, Default, Default),
            optimize_feature_selection)

regress_SVR(a) ==
    LET param_dist == NewDictWith(module.svm_params, "epsilon", "[0.0, 0.1]")
        estimator == New("SVR", [kernel |-> a.kernel])
        s == svm_set(a.kernel, a.optimize_feature_selection)
        calc_feature_importance == s.calc_feature_importance
        optimize_feature_selection == s.optimize_feature_selection
    IN  ToPipeline("regress_SVR", a, s.warned,
            split_optimize_classify(a, estimator,
                optimize_feature_selection, a.parameter_tuning, param_dist,
                calc_feature_importance, "mean_squared_error", "False"),
            optimize_feature_selection)

regress_ridge(a) ==
    LET param_dist == SameObject("linear_params")
        estimator == New("Ridge", [solver |-> a.solver])
    IN  ToPipeline("regress_ridge", a, <<>>,
            split_optimize_classify(a, estimator,
                a.optimize_feature_selection, a.parameter_tuning, param_dist,
                TRUE, "mean_squared_error", "False"),
            a.optimize_feature_selection)

regress_lasso(a) ==
    LET param_dist == SameObject("linear_params")
        estimator == New("Lasso", NoArgs)
    IN  ToPipeline("regress_lasso", a, <<>>,
            split_optimize_classify(a, estimator,
                a.optimize_feature_selection, a.parameter_tuning, param_dist,
                TRUE, "mean_squared_error", "False"),
            a.optimize_feature_selection)

regress_elasticnet(a) ==
    LET param_dist == SameObject("linear_params")
        estimator == New("ElasticNet", NoArgs)
    IN  ToPipeline("regress_elasticnet", a, <<>>,
            split_optimize_classify(a, estimator,
                a.optimize_feature_selection, a.parameter_tuning, param_dist,
                TRUE, "mean_squared_error", "False"),
            a.optimize_feature_selection)

classify_kneighbors(a) ==
    LET param_dist == SameObject("neighbors_params")
        estimator == New("KNeighborsClassifier", [algorithm |-> a.algorithm])
    IN  ToPipeline("classify_kneighbors", a, <<>>,
            split_optimize_classify(a, estimator,
                FALSE, a.parameter_tuning, param_dist,
                FALSE, Default, Default),
            FALSE)

\* regress_kneighbors without scoring= and classification=
regress_kneighbors_unscored(a) ==
    LET param_dist == SameObject("neighbors_params")
        estimator == New("KNeighborsRegressor", [algorithm |-> a.algorithm])
    IN  ToPipeline("regress_kneighbors", a, <<>>,
            split_optimize_classify(a, estimator,
                FALSE, a.parameter_tuning, param_dist,
                FALSE, Default, Default),
            FALSE)

regress_kneighbors(a) ==
    LET param_dist == SameObject("neighbors_params")
        estimator == New("KNeighborsRegressor", [algorithm |-> a.algorithm])
    IN  ToPipeline("regress_kneighbors", a, <<>>,
            split_optimize_classify(a, estimator,
                FALSE, a.parameter_tuning, param_dist,
                FALSE, "mean_squared_error", "False"),
            FALSE)

\* predictions = estimator.predict(table)
classify_new_data(a) ==
    /\ Begin("classify_new_data", a)
    /\ emitted' = <<>>
    /\ trace' = <<CallEv("predict", [estimator |-> a.estimator,
                                     table |-> a.table])>>
    /\ frame' = <<>>
    /\ pc' = "predict"

---------------------------------------------------------------------------
(* What the entry point does when a collaborator it called comes back.     *)
(* ret is the return event; the statements up to the next call follow.     *)

\* features, targets = load_data(...); tune_parameters(features,
\*     targets[category], base_estimator, param_dist, n_jobs=, cv=, random_state=)
after_load_data(ret) ==
    LET features == ret.val.features
        targets == ret.val.targets
    IN  IF args.category \in DOMAIN targets
        THEN /\ trace' = trace \o
                 <<ret, CallEv("tune_parameters",
                          [features |-> features,
                           targets |-> targets[args.category],
                           estimator |-> frame.base_estimator,
                           param_dist |-> frame.param_dist,
                           n_jobs |-> args.opts.n_jobs, cv |-> args.opts.cv,
                           random_state |-> args.opts.random_state])>>
             /\ pc' = "tune_parameters"
             /\ UNCHANGED <<fn, args, frame, emitted, result, module>>
        ELSE \* targets[category] raises; nothing catches it
             /\ trace' = trace \o
                 <<ret, RaiseEv("targets[category]", KeyError(args.category))>>
             /\ result' = [kind |-> "raised", exc |-> KeyError(args.category)]
             /\ pc' = "raised"
             /\ UNCHANGED <<fn, args, frame, emitted, module>>

\* base_estimator = tune_parameters(...); estimator = AdaBoost...(base_estimator,
\*     n_estimators); split_optimize_classify(...)
\* the tuned estimator bound to another name: AdaBoost wraps the untuned tree
after_tune_parameters_untuned(ret) ==
    LET base_estimator == frame.base_estimator
        call == IF fn = "classify_adaboost"
                THEN classify_adaboost_boost(args, base_estimator,
                                             frame.param_dist)
                ELSE regress_adaboost_boost(args, base_estimator,
                                            frame.param_dist)
    IN  /\ trace' = trace \o <<ret, call>>
        /\ pc' = "split_optimize_classify"
        /\ UNCHANGED <<fn, args, frame, emitted, result, module>>

after_tune_parameters(ret) ==
    LET base_estimator == ret.val
        call == IF fn = "classify_adaboost"
                THEN classify_adaboost_boost(args, base_estimator,
                                             frame.param_dist)
                ELSE regress_adaboost_boost(args, base_estimator,
                                            frame.param_dist)
    IN  /\ trace' = trace \o <<ret, call>>
        /\ pc' = "split_optimize_classify"
        /\ UNCHANGED <<fn, args, frame, emitted, result, module>>

\* estimator, cm, accuracy, importances = split_optimize_classify(...)
\* visualize(output_dir, estimator, cm, accuracy, importances,
\*           optimize_feature_selection)
\* the pipeline's estimator unpacked under another name: visualize gets the
\* estimator constructed before the call
after_split_optimize_classify_unfitted(ret) ==
    LET estimator == LastCall.val.estimator
        cm == ret.val[2]
        accuracy == ret.val[3]
        importances == ret.val[4]
    IN  /\ trace' = trace \o
            <<ret, CallEv("visualize",
                          [output_dir |-> args.output_dir,
                           estimator |-> estimator, cm |-> cm,
                           accuracy |-> accuracy, importances |-> importances,
                           optimize_feature_selection |->
                               frame.optimize_feature_selection])>>
        /\ pc' = "visualize"
        /\ UNCHANGED <<fn, args, frame, emitted, result, module>>

after_split_optimize_classify(ret) ==
    LET estimator == ret.val[1]
        cm == ret.val[2]
        accuracy == ret.val[3]
        importances == ret.val[4]
    IN  /\ trace' = trace \o
            <<ret, CallEv("visualize",
                          [output_dir |-> args.output_dir,
                           estimator |-> estimator, cm |-> cm,
                           accuracy |-> accuracy, importances |-> importances,
                           optimize_feature_selection |->
                               frame.optimize_feature_selection])>>
        /\ pc' = "visualize"
        /\ UNCHANGED <<fn, args, frame, emitted, result, module>>

\* visualize(...) is the last statement: the function ends and returns None
\* an entry point ending in "return estimator"
after_visualize_returns_estimator(ret) ==
    /\ trace' = Append(trace, ret)
    /\ result' = [kind |-> "returned",
                  value |-> trace[Len(trace) - 1].val[1]]
    /\ pc' = "returned"
    /\ UNCHANGED <<fn, args, frame, emitted, module>>

after_visualize(ret) ==
    /\ trace' = Append(trace, ret)
    /\ result' = [kind |-> "returned", value |-> None]
    /\ pc' = "returned"
    /\ UNCHANGED <<fn, args, frame, emitted, module>>

\* predictions = estimator.predict(table); return predictions
after_predict(ret) ==
    LET predictions == ret.val
    IN  /\ trace' = Append(trace, ret)
        /\ result' = [kind |-> "returned", value |-> predictions]
        /\ pc' = "returned"
        /\ UNCHANGED <<fn, args, frame, emitted, module>>

\* No try statement encloses any call: an exception raised by the callee
\* leaves the entry point as it is
\* a handler that wraps whatever the callee raised in an error of its own
propagate_wrapped(callee, exc) ==
    /\ trace' = Append(trace, RaiseEv(callee, exc))
    /\ result' = [kind |-> "raised", exc |-> [kind |-> "wrapped", was |-> exc]]
    /\ pc' = "raised"
    /\ UNCHANGED <<fn, args, frame, emitted, module>>

propagate(callee, exc) ==
    /\ trace' = Append(trace, RaiseEv(callee, exc))
    /\ result' = [kind |-> "raised", exc |-> exc]
    /\ pc' = "raised"
    /\ UNCHANGED <<fn, args, frame, emitted, module>>

---------------------------------------------------------------------------
(* The collaborators: utilities.load_data, tune_parameters,                *)
(* split_optimize_classify, visualize and estimator.predict.  Each may     *)
(* return any value of the shape its caller unpacks, or raise.             *)

LoadedData(i, columns) ==
    [features |-> Token("features", i),
     targets |-> [c \in columns |->
                     [kind |-> "column", id |-> i, category |-> c]]]

Tuned(estimator, i) == New(estimator.cls, [tuned |-> i])

PipelineResult(i) ==
    <<New("fitted", [fit |-> i]), Token("cm", i), Token("accuracy", i),
      Token("importances", i)>>

Predictions(estimator, table) ==
    [kind |-> "predictions", by |-> estimator, of |-> table]

load_data_returns ==
    /\ pc = "load_data"
    /\ \E i \in 1..NumResults, columns \in SUBSET Categories :
          after_load_data(ReturnEv("load_data", LoadedData(i, columns)))
    /\ UNCHANGED reports

tune_parameters_returns ==
    /\ pc = "tune_parameters"
    /\ \E i \in 1..NumResults :
          after_tune_parameters(
              ReturnEv("tune_parameters", Tuned(LastCall.val.estimator, i)))
    /\ UNCHANGED reports

split_optimize_classify_returns ==
    /\ pc = "split_optimize_classify"
    /\ \E i \in 1..NumResults :
          after_split_optimize_classify(
              ReturnEv("split_optimize_classify", PipelineResult(i)))
    /\ UNCHANGED reports

visualize_returns ==
    /\ pc = "visualize"
    /\ after_visualize(ReturnEv("visualize", None))
    /\ reports' = reports \cup {LastCall.val.output_dir}

predict_returns ==
    /\ pc = "predict"
    /\ after_predict(ReturnEv("predict",
           Predictions(LastCall.val.estimator, LastCall.val.table)))
    /\ UNCHANGED reports

\* A collaborator raises; visualize may have written its report by then
raises(callee) ==
    /\ pc = callee
    /\ \E exc \in Exceptions : propagate(callee, exc)
    /\ IF callee = "visualize"
       THEN reports' \in {reports, reports \cup {LastCall.val.output_dir}}
       ELSE UNCHANGED reports

\* The caller has taken the value or the exception; the locals and the
\* record of the invocation are gone, the module-level dictionaries stay
finished ==
    /\ pc \in {"returned", "raised"}
    /\ pc' = "idle"
    /\ fn' = "none"
    /\ args' = <<>>
    /\ frame' = <<>>
    /\ trace' = <<>>
    /\ emitted' = <<>>
    /\ result' = [kind |-> "none"]
    /\ reports' = {}
    /\ UNCHANGED module

---------------------------------------------------------------------------

Init ==
    /\ pc = "idle"
    /\ fn = "none"
    /\ args = <<>>
    /\ frame = <<>>
    /\ trace = <<>>
    /\ emitted = <<>>
    /\ result = [kind |-> "none"]
    /\ reports = {}
    /\ module = ModuleAtImport

Next ==
    \/ pc = "idle" /\ \E a \in EnsembleArgs : classify_random_forest(a)
    \/ pc = "idle" /\ \E a \in EnsembleArgs : classify_extra_trees(a)
    \/ pc = "idle" /\ \E a \in EnsembleArgs : classify_adaboost(a)
    \/ pc = "idle" /\ \E a \in EnsembleArgs : classify_gradient_boosting(a)
    \/ pc = "idle" /\ \E a \in EnsembleArgs : regress_random_forest(a)
    \/ pc = "idle" /\ \E a \in EnsembleArgs : regress_extra_trees(a)
    \/ pc = "idle" /\ \E a \in EnsembleArgs : regress_adaboost(a)
    \/ pc = "idle" /\ \E a \in EnsembleArgs : regress_gradient_boosting(a)
    \/ pc = "idle" /\ \E a \in LinearArgs : classify_linearSVC(a)
    \/ pc = "idle" /\ \E a \in SVMArgs : classify_SVC(a)
    \/ pc = "idle" /\ \E a \in SVMArgs : regress_SVR(a)
    \/ pc = "idle" /\ \E a \in RidgeArgs : regress_ridge(a)
    \/ pc = "idle" /\ \E a \in LinearArgs : regress_lasso(a)
    \/ pc = "idle" /\ \E a \in LinearArgs : regress_elasticnet(a)
    \/ pc = "idle" /\ \E a \in NeighborsArgs : classify_kneighbors(a)
    \/ pc = "idle" /\ \E a \in NeighborsArgs : regress_kneighbors(a)
    \/ pc = "idle" /\ \E a \in NewDataArgs : classify_new_data(a)
    \/ load_data_returns
    \/ tune_parameters_returns
    \/ split_optimize_classify_returns
    \/ visualize_returns
    \/ predict_returns
    \/ raises("load_data")
    \/ raises("tune_parameters")
    \/ raises("split_optimize_classify")
    \/ raises("visualize")
    \/ raises("predict")
    \/ finished

Spec == Init /\ [][Next]_vars

---------------------------------------------------------------------------
(* Vocabulary of the properties *)

SVMFns == {"classify_SVC", "regress_SVR"}
NeighborsFns == {"classify_kneighbors", "regress_kneighbors"}
AdaBoostFns == {"classify_adaboost", "regress_adaboost"}
ClassifyFns ==
    {"classify_random_forest", "classify_extra_trees", "classify_adaboost",
     "classify_gradient_boosting", "classify_linearSVC", "classify_SVC",
     "classify_kneighbors"}
RegressFns ==
    {"regress_random_forest", "regress_extra_trees", "regress_adaboost",
     "regress_gradient_boosting", "regress_SVR", "regress_ridge",
     "regress_lasso", "regress_elasticnet", "regress_kneighbors"}
\* the entry points that take an output_dir
ReportFns == ClassifyFns \cup RegressFns

IsCall(e, callee) == e.ev = "call" /\ e.callee = callee
IsReturn(e, callee) == e.ev = "return" /\ e.callee = callee
IsRaise(e) == e.ev = "raise"

CallsTo(callee) == {i \in 1..Len(trace) : IsCall(trace[i], callee)}
Called(callee) == CallsTo(callee) # {}
\* the arguments of the call of callee, when there is one
ArgsTo(callee) == trace[CHOOSE i \in CallsTo(callee) : TRUE].val
\* the value callee returned, when it has
ReturnedBy(callee) ==
    trace[CHOOSE i \in 1..Len(trace) : IsReturn(trace[i], callee)].val
HasReturned(callee) == \E i \in 1..Len(trace) : IsReturn(trace[i], callee)

Warned ==
    \E i \in 1..Len(emitted) : emitted[i].category = "UserWarning"

NonLinearSVM == fn \in SVMFns /\ args.kernel # "linear"
LinearSVM == fn \in SVMFns /\ args.kernel = "linear"

---------------------------------------------------------------------------
(* C1: in every invocation of classify_SVC or regress_SVR with a kernel    *)
(* other than 'linear', split_optimize_classify is called with             *)
(* optimize_feature_selection=False and a UserWarning has been emitted,    *)
(* whatever value the caller passed.                                       *)
C1_NonLinearKernelForcesOff ==
    NonLinearSVM =>
        /\ Called("split_optimize_classify")
        /\ \A i \in CallsTo("split_optimize_classify") :
              trace[i].val.optimize_feature_selection = FALSE
        /\ Warned

C1_Witness ==
    /\ fn = "classify_SVC"
    /\ args.kernel = "rbf"
    /\ args.optimize_feature_selection = TRUE
    /\ Called("split_optimize_classify")
    /\ pc = "returned"

(* C2: in every invocation of classify_SVC or regress_SVR with kernel      *)
(* 'linear', split_optimize_classify is called with                        *)
(* calc_feature_importance=True and with the caller's own                  *)
(* optimize_feature_selection.                                             *)
C2_LinearKernelPassesThrough ==
    LinearSVM =>
        /\ Called("split_optimize_classify")
        /\ \A i \in CallsTo("split_optimize_classify") :
              /\ trace[i].val.calc_feature_importance = TRUE
              /\ trace[i].val.optimize_feature_selection =
                     args.optimize_feature_selection

C2_Witness ==
    /\ fn = "regress_SVR"
    /\ args.kernel = "linear"
    /\ args.optimize_feature_selection = TRUE
    /\ Called("split_optimize_classify")
    /\ pc = "returned"

\* the estimator handed to the pipeline is of the kind the entry point's
\* name announces, and so is the tree an AdaBoost estimator wraps
KindOf(estimator, kinds) ==
    /\ estimator.cls \in kinds
    /\ "base_estimator" \in DOMAIN estimator.ctor =>
           estimator.ctor.base_estimator.cls \in kinds

ClassificationPath(kw) ==
    /\ KindOf(kw.estimator, Classifiers)
    /\ kw.scoring = Default
    /\ kw.classification = Default

RegressionPath(kw) ==
    /\ KindOf(kw.estimator, Regressors)
    /\ kw.scoring = "mean_squared_error"
    /\ kw.classification = "False"

(* C3, as stated: every entry point named classify_* that has returned has *)
(* called split_optimize_classify on the classification path, and every    *)
(* entry point named regress_* on the regression path.                     *)
C3_AsStated ==
    pc = "returned" =>
        /\ fn \in ClassifyFns \cup {"classify_new_data"} =>
              /\ Called("split_optimize_classify")
              /\ ClassificationPath(ArgsTo("split_optimize_classify"))
        /\ fn \in RegressFns =>
              /\ Called("split_optimize_classify")
              /\ RegressionPath(ArgsTo("split_optimize_classify"))

(* C3, amended: every classify_* entry point other than classify_new_data  *)
(* calls split_optimize_classify with a classifier and without scoring or  *)
(* classification, every regress_* entry point calls it with a regressor,  *)
(* scoring=mean_squared_error and classification=False, and                *)
(* classify_new_data builds no estimator and never calls it.               *)
C3_PathMatchesName ==
    /\ \A i \in CallsTo("split_optimize_classify") :
          /\ fn \in ClassifyFns => ClassificationPath(trace[i].val)
          /\ fn \in RegressFns => RegressionPath(trace[i].val)
    /\ (pc = "returned" /\ fn \in ReportFns) =>
          Called("split_optimize_classify")
    /\ fn = "classify_new_data" =>
          /\ ~Called("split_optimize_classify")
          /\ \A i \in 1..Len(trace) :
                IsCall(trace[i], "predict") =>
                    trace[i].val.estimator = args.estimator

C3_Witness ==
    /\ fn = "regress_kneighbors"
    /\ pc = "returned"
    /\ RegressionPath(ArgsTo("split_optimize_classify"))

(* C4: in classify_adaboost and regress_adaboost, load_data and            *)
(* tune_parameters are called only when the caller's parameter_tuning is   *)
(* True, both have been called by the time split_optimize_classify is      *)
(* called exactly when it is True, and split_optimize_classify always gets *)
(* parameter_tuning=False.                                                 *)
C4_AdaBoostTunesBaseOnly ==
    fn \in AdaBoostFns =>
        /\ Called("load_data") => args.parameter_tuning
        /\ Called("tune_parameters") => args.parameter_tuning
        /\ args.parameter_tuning => Called("load_data")
        /\ Called("split_optimize_classify") =>
              /\ Called("load_data") <=> args.parameter_tuning
              /\ Called("tune_parameters") <=> args.parameter_tuning
        /\ \A i \in CallsTo("split_optimize_classify") :
              trace[i].val.parameter_tuning = FALSE

C4_Witness ==
    /\ fn = "classify_adaboost"
    /\ args.parameter_tuning = TRUE
    /\ Called("tune_parameters")
    /\ Called("split_optimize_classify")
    /\ pc = "returned"

(* C5, as stated: every entry point that returns, classify_new_data        *)
(* included, returns None and has written its report to output_dir through *)
(* visualize.                                                              *)
C5_AsStated ==
    pc = "returned" =>
        /\ result.value = None
        /\ Called("visualize")
        /\ reports # {}

(* C5, amended: every entry point that takes an output_dir returns None    *)
(* after visualize was called with that output_dir and wrote the report    *)
(* there; classify_new_data takes no output_dir, never calls visualize,    *)
(* and returns the predictions of estimator.predict(table).                *)
C5_ReportOrPredictions ==
    pc = "returned" =>
        IF fn = "classify_new_data"
        THEN /\ result.value = ReturnedBy("predict")
             /\ result.value # None
             /\ ~Called("visualize")
             /\ reports = {}
        ELSE /\ result.value = None
             /\ Called("visualize")
             /\ ArgsTo("visualize").output_dir = args.output_dir
             /\ reports = {args.output_dir}

C5_Witness ==
    /\ pc = "returned"
    /\ fn = "classify_kneighbors"
    /\ reports = {args.output_dir}
    /\ result.value = None

\* what went wrong in or before the pipeline: load_data, the indexing of
\* its targets, tune_parameters or split_optimize_classify
BeforeReport ==
    {"load_data", "targets[category]", "tune_parameters",
     "split_optimize_classify"}

(* C6: an exception raised by a callee ends the invocation on the spot and *)
(* is what the caller gets, unchanged; an invocation ends in an exception  *)
(* only when a callee raised one; and when the failure is in or before     *)
(* split_optimize_classify, visualize is never called and no report is     *)
(* written.                                                                *)
C6_FailuresSurfaceUnchanged ==
    /\ \A i \in 1..Len(trace) :
          IsRaise(trace[i]) =>
              /\ i = Len(trace)
              /\ pc = "raised"
              /\ result = [kind |-> "raised", exc |-> trace[i].val]
              /\ trace[i].callee \in BeforeReport =>
                    /\ ~Called("visualize")
                    /\ reports = {}
    /\ (pc = "raised" \/ result.kind = "raised") =>
          /\ Len(trace) > 0
          /\ IsRaise(trace[Len(trace)])

C6_Witness ==
    /\ pc = "raised"
    /\ fn = "classify_SVC"
    /\ trace[Len(trace)].callee = "split_optimize_classify"
    /\ result.exc \in Exceptions

(* C7: with a non-linear kernel classify_SVC and regress_SVR call          *)
(* split_optimize_classify with calc_feature_importance=False; every entry *)
(* point other than those two and the two k-nearest-neighbor ones calls it *)
(* with calc_feature_importance=True.                                      *)
C7_FeatureImportanceFlag ==
    \A i \in CallsTo("split_optimize_classify") :
        /\ NonLinearSVM => trace[i].val.calc_feature_importance = FALSE
        /\ fn \notin SVMFns \cup NeighborsFns =>
               trace[i].val.calc_feature_importance = TRUE

C7_Witness ==
    /\ fn = "regress_SVR"
    /\ args.kernel = "poly"
    /\ Called("split_optimize_classify")
    /\ ArgsTo("split_optimize_classify").calc_feature_importance = FALSE

(* C8: an entry point that takes an output_dir calls                       *)
(* split_optimize_classify at most once and visualize at most once, and    *)
(* exactly once each when it returns; visualize is called right after      *)
(* split_optimize_classify returned, with the caller's output_dir and the  *)
(* four values just returned, the estimator being the returned one.        *)
C8_PipelineThenReport ==
    fn \in ReportFns =>
        /\ Cardinality(CallsTo("split_optimize_classify")) <= 1
        /\ Cardinality(CallsTo("visualize")) <= 1
        /\ \A j \in CallsTo("visualize") :
              /\ j > 2
              /\ IsCall(trace[j - 2], "split_optimize_classify")
              /\ IsReturn(trace[j - 1], "split_optimize_classify")
              /\ trace[j].val.output_dir = args.output_dir
              /\ trace[j].val.estimator = trace[j - 1].val[1]
              /\ trace[j].val.cm = trace[j - 1].val[2]
              /\ trace[j].val.accuracy = trace[j - 1].val[3]
              /\ trace[j].val.importances = trace[j - 1].val[4]
        /\ HasReturned("split_optimize_classify") => Called("visualize")
        /\ pc = "returned" =>
              /\ Cardinality(CallsTo("split_optimize_classify")) = 1
              /\ Cardinality(CallsTo("visualize")) = 1

C8_Witness ==
    /\ fn = "regress_gradient_boosting"
    /\ pc = "returned"
    /\ ArgsTo("visualize").estimator = ReturnedBy("split_optimize_classify")[1]
    /\ ArgsTo("visualize").estimator #
           ArgsTo("split_optimize_classify").estimator

\* the decision tree classify_adaboost / regress_adaboost starts from
UntunedTree ==
    New(IF fn = "classify_adaboost" THEN "DecisionTreeClassifier"
                                    ELSE "DecisionTreeRegressor", NoArgs)

\* d is the ensemble search space less its 'bootstrap' key
EnsembleLessBootstrap(d) ==
    /\ DOMAIN d = DOMAIN module.ensemble_params \ {"bootstrap"}
    /\ \A k \in DOMAIN d : d[k] = module.ensemble_params[k]

(* C9: classify_adaboost and regress_adaboost with parameter_tuning=True   *)
(* call load_data (transpose=True), then tune_parameters, then             *)
(* split_optimize_classify, then visualize; tune_parameters gets the       *)
(* features load_data returned, the column of its targets named by         *)
(* category, the untuned tree and the ensemble search space less           *)
(* 'bootstrap'; the AdaBoost estimator handed to the pipeline wraps what   *)
(* tune_parameters returned.  With parameter_tuning=False it wraps the     *)
(* untuned tree.                                                           *)
C9_AdaBoostTuningOrder ==
    fn \in AdaBoostFns =>
        IF args.parameter_tuning
        THEN /\ CallsTo("load_data") = {1}
             /\ trace[1].val = [table |-> args.table,
                                metadata |-> args.metadata,
                                transpose |-> TRUE]
             /\ CallsTo("tune_parameters") \subseteq {3}
             /\ \A i \in CallsTo("tune_parameters") :
                   /\ IsReturn(trace[2], "load_data")
                   /\ trace[i].val.features = trace[2].val.features
                   /\ trace[i].val.targets =
                          trace[2].val.targets[args.category]
                   /\ trace[i].val.estimator = UntunedTree
                   /\ EnsembleLessBootstrap(trace[i].val.param_dist.dict)
             /\ CallsTo("split_optimize_classify") \subseteq {5}
             /\ \A i \in CallsTo("split_optimize_classify") :
                   /\ IsReturn(trace[4], "tune_parameters")
                   /\ trace[i].val.estimator.ctor.base_estimator =
                          trace[4].val
             /\ CallsTo("visualize") \subseteq {7}
             /\ pc = "returned" =>
                   /\ Called("tune_parameters")
                   /\ Called("split_optimize_classify")
                   /\ Called("visualize")
        ELSE /\ CallsTo("split_optimize_classify") = {1}
             /\ trace[1].val.estimator.ctor.base_estimator = UntunedTree

C9_Witness ==
    /\ fn = "regress_adaboost"
    /\ args.parameter_tuning = TRUE
    /\ pc = "returned"
    /\ ArgsTo("split_optimize_classify").estimator.ctor.base_estimator
           = ReturnedBy("tune_parameters")
    /\ ReturnedBy("tune_parameters") # UntunedTree

\* the flag each family of entry points is to use
ExpectedFlag ==
    IF fn \in NeighborsFns THEN FALSE
    ELSE IF fn \in SVMFns
         THEN args.kernel = "linear" /\ args.optimize_feature_selection
         ELSE args.optimize_feature_selection

(* C10: the optimize_feature_selection handed to visualize is the one      *)
(* handed to split_optimize_classify in the same invocation: the caller's  *)
(* value for the tree, boosting, linear and linearSVC entry points, False  *)
(* for a non-linear kernel and the caller's value for a linear one in      *)
(* classify_SVC and regress_SVR, and False for the two k-nearest-neighbor  *)
(* entry points.                                                           *)
C10_ReportFlagIsPipelineFlag ==
    fn \in ReportFns =>
        /\ \A j \in CallsTo("visualize") :
              trace[j].val.optimize_feature_selection =
                  ArgsTo("split_optimize_classify").optimize_feature_selection
        /\ \A i \in CallsTo("split_optimize_classify") \cup CallsTo("visualize") :
              trace[i].val.optimize_feature_selection = ExpectedFlag

C10_Witness ==
    /\ fn = "classify_SVC"
    /\ args.kernel = "rbf"
    /\ args.optimize_feature_selection = TRUE
    /\ Called("visualize")
    /\ ArgsTo("visualize").optimize_feature_selection = FALSE

\* the entry points whose param_dist is a dictionary built in the call
BuildsOwnDict ==
    {"classify_random_forest", "classify_extra_trees", "classify_adaboost",
     "classify_gradient_boosting", "regress_adaboost",
     "regress_gradient_boosting", "regress_SVR"}

\* the object an entry point hands over as param_dist: "fresh" for a
\* dictionary built in the call, else the module-level dictionary itself
HandedOver(f) ==
    IF f \in BuildsOwnDict THEN "fresh"
    ELSE IF f \in {"regress_random_forest", "regress_extra_trees"}
         THEN "ensemble_params"
    ELSE IF f = "classify_linearSVC" THEN "linear_svm_params"
    ELSE IF f = "classify_SVC" THEN "svm_params"
    ELSE IF f \in NeighborsFns THEN "neighbors_params"
    ELSE "linear_params"

\* the calls that carry a param_dist
CarryParamDist == CallsTo("tune_parameters") \cup CallsTo("split_optimize_classify")

(* C11, as stated: the module-level dictionaries are as at import, and no  *)
(* call hands a collaborator a module-level dictionary itself: every       *)
(* param_dist is an object of its own.                                     *)
C11_AsStated ==
    /\ module = ModuleAtImport
    /\ \A i \in CarryParamDist : trace[i].val.param_dist.obj = "fresh"

(* C11, amended: no statement of the file changes the module-level         *)
(* dictionaries, so across any sequence of calls they are as at import as  *)
(* long as no collaborator changes the param_dist it is handed; the tree   *)
(* and boosting classifiers, the AdaBoost and gradient-boosting regressors *)
(* and regress_SVR hand over a dictionary built in the call, while         *)
(* regress_random_forest, regress_extra_trees, classify_linearSVC,         *)
(* classify_SVC, regress_ridge, regress_lasso, regress_elasticnet and the  *)
(* two k-nearest-neighbor entry points hand over the module-level          *)
(* dictionary object itself, with its current content.                     *)
C11_UnchangedButShared ==
    /\ module = ModuleAtImport
    /\ \A i \in CarryParamDist :
          LET param_dist == trace[i].val.param_dist
          IN  /\ param_dist.obj = HandedOver(fn)
              /\ param_dist.obj # "fresh" =>
                     param_dist.dict = module[param_dist.obj]

C11_Witness ==
    /\ fn = "regress_random_forest"
    /\ pc = "returned"
    /\ ArgsTo("split_optimize_classify").param_dist.obj = "ensemble_params"
    /\ module = ModuleAtImport

\* where in the invocation warnings.warn was called
WarnedAt == {i \in 1..Len(trace) : trace[i].ev = "warn"}

(* C12: in any invocation the feature-selection warning is issued exactly  *)
(* once, as a UserWarning, when the entry point is classify_SVC or         *)
(* regress_SVR with a kernel other than 'linear', and not at all           *)
(* otherwise; it is issued before split_optimize_classify is called, the   *)
(* call of split_optimize_classify follows it, and visualize is called     *)
(* once split_optimize_classify has returned.                              *)
C12_WarningOnceAndNotFatal ==
    /\ Len(emitted) = (IF NonLinearSVM THEN 1 ELSE 0)
    /\ Cardinality(WarnedAt) = Len(emitted)
    /\ \A i \in 1..Len(emitted) :
          /\ emitted[i] = warn_feature_selection
          /\ emitted[i].category = "UserWarning"
    /\ \A i \in WarnedAt :
          /\ \A j \in CallsTo("split_optimize_classify") : i < j
          /\ Called("split_optimize_classify")
          /\ HasReturned("split_optimize_classify") => Called("visualize")
          /\ pc = "returned" => Called("visualize")
          /\ pc = "raised" => trace[Len(trace)].callee \in
                 {"split_optimize_classify", "visualize"}

C12_Witness ==
    /\ fn = "regress_SVR"
    /\ args.kernel = "rbf"
    /\ Len(emitted) = 1
    /\ WarnedAt = {1}
    /\ CallsTo("split_optimize_classify") = {2}
    /\ Called("visualize")
    /\ pc = "returned"

====
